---- MODULE Spec2Model ----
(***************************************************************************)
(* Persistent ternary search tree (src/src/tst.h).                         *)
(*                                                                         *)
(* Nodes live in a heap: a node reference (std::shared_ptr<Node>) is an    *)
(* index into the sequence `heap`, nullptr is 0.  A TST value is its _root *)
(* reference.  Every operation of the class is an operator that takes the  *)
(* heap explicitly; an operation that allocates returns the new heap       *)
(* together with the root of its result.  A call that throws               *)
(* std::logic_error yields a result whose exc field is TRUE, and every     *)
(* caller propagates it, as C++ unwinding does.                            *)
(***************************************************************************)
EXTENDS Integers, Sequences, FiniteSets, TLC

\* Symbols are the characters 1..MaxSym; 0 is the terminator '\0'.
MaxSym == 3
\* Longest string passed to an operation.
MaxLen == 2
\* Number of TST values the client holds.
MaxTrees == 4

Symbols == 1..MaxSym

\* Every '\0'-terminated string of at most MaxLen symbols.
Strs == UNION {[1..n -> Symbols] : n \in 0..MaxLen}

\* The strings of the documented example, as character codes.
str_category == <<99, 97, 116, 101, 103, 111, 114, 121>>
str_functor == <<102, 117, 110, 99, 116, 111, 114>>
str_theory == <<116, 104, 101, 111, 114, 121>>
str_catamorphism == <<99, 97, 116, 97, 109, 111, 114, 112, 104, 105, 115, 109>>
str_cat == <<99, 97, 116>>

Words == {str_category, str_functor, str_theory}
Queries == Words \cup {str_catamorphism, str_cat, <<>>}

nullptr == 0

\* Result of a call: a returned value, or std::logic_error thrown.
Ret(v) == [exc |-> FALSE, ret |-> v]
Throw == [exc |-> TRUE, ret |-> "logic_error"]

\* Result of a call that may allocate: the heap after it and the root built.
RetT(h, root) == [exc |-> FALSE, heap |-> h, root |-> root]
ThrowT(h) == [exc |-> TRUE, heap |-> h, root |-> nullptr]

\* struct Node: the five const fields.
Node(value, word, left, center, right) ==
    [value |-> value, word |-> word, left |-> left, center |-> center, right |-> right]

\* TST(C value, bool word, TST left, TST center, TST right): make_shared<Node>.
TST_node(h, value, word, left, center, right) ==
    RetT(Append(h, Node(value, word, left, center, right)), Len(h) + 1)

\* bool empty() const
empty(this) == this = nullptr

\* void assert_not_empty() const
assert_not_empty(this) == IF empty(this) THEN Throw ELSE Ret(TRUE)

\* C value() const
value(h, this) == IF assert_not_empty(this).exc THEN Throw ELSE Ret(h[this].value)

\* bool word() const
word(h, this) == IF assert_not_empty(this).exc THEN Throw ELSE Ret(h[this].word)

\* TST left() const
left(h, this) == IF assert_not_empty(this).exc THEN Throw ELSE Ret(h[this].left)

\* TST center() const
center(h, this) == IF assert_not_empty(this).exc THEN Throw ELSE Ret(h[this].center)

\* TST right() const
right(h, this) == IF assert_not_empty(this).exc THEN Throw ELSE Ret(h[this].right)

RECURSIVE prefix_search(_, _, _, _, _)

\* Mutant: the descent goes right where the code goes left, and left where
\* it goes right.
prefix_search_swapped(h, this, str, acc, parent) ==
    IF empty(this) \/ str = <<>> THEN Ret(<<acc, parent>>)
    ELSE IF h[this].value > Head(str)
         THEN prefix_search(h, h[this].right, str, acc, this)
    ELSE IF h[this].value < Head(str)
         THEN prefix_search(h, h[this].left, str, acc, this)
    ELSE prefix_search(h, h[this].center, Tail(str), acc + 1, this)

\* Mutant: the descent stops only at the end of the string, not at an empty
\* tree.
prefix_search_unguarded(h, this, str, acc, parent) ==
    IF str = <<>> THEN Ret(<<acc, parent>>)
    ELSE LET v == value(h, this) IN
         IF v.exc THEN Throw
         ELSE IF v.ret > Head(str)
              THEN prefix_search(h, h[this].left, str, acc, this)
         ELSE IF v.ret < Head(str)
              THEN prefix_search(h, h[this].right, str, acc, this)
         ELSE prefix_search(h, h[this].center, Tail(str), acc + 1, this)

\* std::pair<size_t, TST> prefix_search(const C *str, size_t acc, TST parent) const
prefix_search(h, this, str, acc, parent) ==
    IF empty(this) \/ str = <<>> THEN Ret(<<acc, parent>>)
    ELSE LET v == value(h, this) IN
         IF v.exc THEN Throw
         ELSE IF v.ret > Head(str) THEN
              LET l == left(h, this) IN
              IF l.exc THEN Throw ELSE prefix_search(h, l.ret, str, acc, this)
         ELSE IF v.ret < Head(str) THEN
              LET r == right(h, this) IN
              IF r.exc THEN Throw ELSE prefix_search(h, r.ret, str, acc, this)
         ELSE LET c == center(h, this) IN
              IF c.exc THEN Throw ELSE prefix_search(h, c.ret, Tail(str), acc + 1, this)

\* TST(const C *str): the path of str, built from its last symbol upwards.
RECURSIVE TST_str(_, _)
TST_str(h, str) ==
    IF str = <<>> THEN RetT(h, nullptr)
    ELSE LET c == TST_str(h, Tail(str)) IN
         TST_node(c.heap, Head(str), Tail(str) = <<>>, nullptr, c.root, nullptr)

RECURSIVE operator_plus(_, _, _)

\* Mutant: the rebuilt node's word flag is that of the inserted string alone.
operator_plus_overwrites_word(h, this, str) ==
    IF str = <<>> THEN RetT(h, this)
    ELSE IF empty(this) THEN TST_str(h, str)
    ELSE LET n == h[this] IN
         IF Head(str) > n.value
         THEN LET s == operator_plus(h, n.right, str) IN
              TST_node(s.heap, n.value, n.word, n.left, n.center, s.root)
         ELSE IF Head(str) < n.value
         THEN LET s == operator_plus(h, n.left, str) IN
              TST_node(s.heap, n.value, n.word, s.root, n.center, n.right)
         ELSE LET s == operator_plus(h, n.center, Tail(str)) IN
              TST_node(s.heap, Head(str), Tail(str) = <<>>, n.left, s.root, n.right)

\* Mutant: a string that ends at an existing node is marked on that node
\* in place.
operator_plus_in_place(h, this, str) ==
    IF str = <<>> THEN RetT(h, this)
    ELSE IF empty(this) THEN TST_str(h, str)
    ELSE LET n == h[this] IN
         IF Head(str) > n.value
         THEN LET s == operator_plus(h, n.right, str) IN
              TST_node(s.heap, n.value, n.word, n.left, n.center, s.root)
         ELSE IF Head(str) < n.value
         THEN LET s == operator_plus(h, n.left, str) IN
              TST_node(s.heap, n.value, n.word, s.root, n.center, n.right)
         ELSE IF Tail(str) = <<>>
         THEN RetT([h EXCEPT ![this].word = TRUE], this)
         ELSE LET s == operator_plus(h, n.center, Tail(str)) IN
              TST_node(s.heap, Head(str), n.word, n.left, s.root, n.right)

\* A copy of the root node of t.
CopyNode(h, t) ==
    IF t = nullptr THEN RetT(h, nullptr)
    ELSE TST_node(h, h[t].value, h[t].word, h[t].left, h[t].center, h[t].right)

\* Mutant: on a matching symbol the right sibling is copied, not shared.
operator_plus_copies_sibling(h, this, str) ==
    IF str = <<>> THEN RetT(h, this)
    ELSE IF empty(this) THEN TST_str(h, str)
    ELSE LET n == h[this] IN
         IF Head(str) > n.value
         THEN LET s == operator_plus(h, n.right, str) IN
              TST_node(s.heap, n.value, n.word, n.left, n.center, s.root)
         ELSE IF Head(str) < n.value
         THEN LET s == operator_plus(h, n.left, str) IN
              TST_node(s.heap, n.value, n.word, s.root, n.center, n.right)
         ELSE LET s == operator_plus(h, n.center, Tail(str))
                  r == CopyNode(s.heap, n.right)
              IN TST_node(r.heap, Head(str), n.word \/ Tail(str) = <<>>,
                          n.left, s.root, r.root)

\* Mutant: on a greater symbol the center subtree's root is copied, not
\* shared.
operator_plus_copies_center(h, this, str) ==
    IF str = <<>> THEN RetT(h, this)
    ELSE IF empty(this) THEN TST_str(h, str)
    ELSE LET n == h[this] IN
         IF Head(str) > n.value
         THEN LET s == operator_plus(h, n.right, str)
                  c == CopyNode(s.heap, n.center)
              IN TST_node(c.heap, n.value, n.word, n.left, c.root, s.root)
         ELSE IF Head(str) < n.value
         THEN LET s == operator_plus(h, n.left, str) IN
              TST_node(s.heap, n.value, n.word, s.root, n.center, n.right)
         ELSE LET s == operator_plus(h, n.center, Tail(str)) IN
              TST_node(s.heap, Head(str), n.word \/ Tail(str) = <<>>,
                       n.left, s.root, n.right)

\* Mutant: a greater symbol is inserted into the left subtree and a smaller
\* one into the right subtree.
operator_plus_swapped(h, this, str) ==
    IF str = <<>> THEN RetT(h, this)
    ELSE IF empty(this) THEN TST_str(h, str)
    ELSE LET n == h[this] IN
         IF Head(str) > n.value
         THEN LET s == operator_plus(h, n.left, str) IN
              TST_node(s.heap, n.value, n.word, s.root, n.center, n.right)
         ELSE IF Head(str) < n.value
         THEN LET s == operator_plus(h, n.right, str) IN
              TST_node(s.heap, n.value, n.word, n.left, n.center, s.root)
         ELSE LET s == operator_plus(h, n.center, Tail(str)) IN
              TST_node(s.heap, Head(str), n.word \/ Tail(str) = <<>>,
                       n.left, s.root, n.right)

\* Mutant: the first comparison is >=, so a matching symbol is inserted
\* into the right subtree.
operator_plus_ge(h, this, str) ==
    IF str = <<>> THEN RetT(h, this)
    ELSE IF empty(this) THEN TST_str(h, str)
    ELSE LET n == h[this] IN
         IF Head(str) >= n.value
         THEN LET s == operator_plus(h, n.right, str) IN
              TST_node(s.heap, n.value, n.word, n.left, n.center, s.root)
         ELSE LET s == operator_plus(h, n.left, str) IN
              TST_node(s.heap, n.value, n.word, s.root, n.center, n.right)

\* TST operator+(const C *str) const
operator_plus(h, this, str) ==
    IF str = <<>> THEN RetT(h, this)
    ELSE IF empty(this) THEN TST_str(h, str)
    ELSE LET v == value(h, this)
             w == word(h, this)
             l == left(h, this)
             c == center(h, this)
             r == right(h, this)
         IN
         IF v.exc THEN ThrowT(h)
         ELSE IF Head(str) > v.ret THEN
              IF w.exc \/ l.exc \/ c.exc \/ r.exc THEN ThrowT(h)
              ELSE LET s == operator_plus(h, r.ret, str) IN
                   IF s.exc THEN ThrowT(h)
                   ELSE TST_node(s.heap, v.ret, w.ret, l.ret, c.ret, s.root)
         ELSE IF Head(str) < v.ret THEN
              IF w.exc \/ l.exc \/ c.exc \/ r.exc THEN ThrowT(h)
              ELSE LET s == operator_plus(h, l.ret, str) IN
                   IF s.exc THEN ThrowT(h)
                   ELSE TST_node(s.heap, v.ret, w.ret, s.root, c.ret, r.ret)
         ELSE IF w.exc \/ l.exc \/ c.exc \/ r.exc THEN ThrowT(h)
              ELSE LET s == operator_plus(h, c.ret, Tail(str)) IN
                   IF s.exc THEN ThrowT(h)
                   ELSE TST_node(s.heap, Head(str), w.ret \/ Tail(str) = <<>>,
                                 l.ret, s.root, r.ret)

\* bool exist(const std::basic_string<C> &str) const
exist(h, this, str) ==
    LET ps == prefix_search(h, this, str, 0, nullptr) IN
    IF ps.exc THEN Throw
    ELSE LET length == ps.ret[1]
             node == ps.ret[2]
         IN
         IF length = Len(str) /\ ~empty(node)
         THEN LET w == word(h, node) IN IF w.exc THEN Throw ELSE Ret(w.ret)
         ELSE Ret(FALSE)

\* std::basic_string<C> prefix(const std::basic_string<C> &str) const
prefix(h, this, str) ==
    LET ps == prefix_search(h, this, str, 0, nullptr) IN
    IF ps.exc THEN Throw ELSE Ret(SubSeq(str, 1, ps.ret[1]))

\* The functors folded with: size()'s counting lambda, and a functor that
\* appends the root of the tree it is applied to (it records the calls).
Functors == {"count", "trace"}
functor_call(functor, acc, t) ==
    IF functor = "count" THEN acc + 1 ELSE Append(acc, t)

\* C++ evaluates an argument before the call it is passed to.
Evaluated(v) == v = v

\* Acc fold(Acc acc, Functor functor) const, with Detail::fold over the
\* vector {_left, _center, _right} and fold_bind = t.fold(a, functor).
RECURSIVE fold(_, _, _, _)
RECURSIVE Detail_fold(_, _, _, _)

\* Mutant: the range ends one element early, so the last child is skipped.
Detail_fold_skips_last(h, range, acc, functor) ==
    IF Len(range) <= 1 THEN acc
    ELSE LET a == fold(h, Head(range), acc, functor) IN
         CASE Evaluated(a) -> Detail_fold(h, Tail(range), a, functor)

\* Mutant: the functor is applied to the tree before its children are folded.
fold_preorder(h, this, acc, functor) ==
    IF empty(this) THEN acc
    ELSE Detail_fold(h, <<h[this].left, h[this].center, h[this].right>>,
                     functor_call(functor, acc, this), functor)

Detail_fold(h, range, acc, functor) ==
    IF range = <<>> THEN acc
    ELSE LET a == fold(h, Head(range), acc, functor) IN
         CASE Evaluated(a) -> Detail_fold(h, Tail(range), a, functor)

fold(h, this, acc, functor) ==
    IF empty(this) THEN acc
    ELSE functor_call(functor,
                      Detail_fold(h, <<h[this].left, h[this].center, h[this].right>>,
                                  acc, functor),
                      this)

\* size_t size() const
size(h, this) == fold(h, this, 0, "count")

(***************************************************************************)
(* The client of the class.  `trees` are the TST values it holds, `hist`   *)
(* the strings each was built from (in call order), `last` the most recent *)
(* call: its operation, this-tree, arguments, result and the heap size     *)
(* before it.                                                              *)
(***************************************************************************)
VARIABLES heap, trees, hist, last

vars == <<heap, trees, hist, last>>

Call(op, this, str, functor, acc, base, res) ==
    [op |-> op, this |-> this, str |-> str, functor |-> functor,
     acc |-> acc, base |-> base, res |-> res]

\* TST() = default: the client starts with one empty tree.
Init ==
    /\ heap = <<>>
    /\ trees = <<nullptr>>
    /\ hist = << <<>> >>
    /\ last = Call("TST", 0, <<>>, "", 0, 0, Ret(nullptr))

\* The client builds trees and then observes one of them with a const member
\* function; const calls change no object, so one observation ends a run.
Building == last.op \in {"TST", "TST_str", "operator_plus"}

\* t = TST(str)
Construct(str) ==
    /\ Building
    /\ Len(trees) < MaxTrees
    /\ LET r == TST_str(heap, str) IN
       /\ heap' = r.heap
       /\ trees' = IF r.exc THEN trees ELSE Append(trees, r.root)
       /\ hist' = IF r.exc THEN hist ELSE Append(hist, <<str>>)
       /\ last' = Call("TST_str", 0, str, "", 0, Len(heap),
                       IF r.exc THEN Throw ELSE Ret(r.root))

\* t = trees[i] + str
Insert(i, str) ==
    /\ Building
    /\ Len(trees) < MaxTrees
    /\ LET r == operator_plus(heap, trees[i], str) IN
       /\ heap' = r.heap
       /\ trees' = IF r.exc THEN trees ELSE Append(trees, r.root)
       /\ hist' = IF r.exc THEN hist ELSE Append(hist, Append(hist[i], str))
       /\ last' = Call("operator_plus", i, str, "", 0, Len(heap),
                       IF r.exc THEN Throw ELSE Ret(r.root))

\* trees[i].exist(str)
Exist(i, str) ==
    /\ Building
    /\ last' = Call("exist", i, str, "", 0, Len(heap), exist(heap, trees[i], str))
    /\ UNCHANGED <<heap, trees, hist>>

\* trees[i].prefix(str)
Prefix(i, str) ==
    /\ Building
    /\ last' = Call("prefix", i, str, "", 0, Len(heap), prefix(heap, trees[i], str))
    /\ UNCHANGED <<heap, trees, hist>>

\* The accumulators a fold is started with.
Accs(functor) == IF functor = "count" THEN {0, 1} ELSE {<<>>, <<nullptr>>}

\* trees[i].fold(acc, functor)
Fold(i, functor, acc) ==
    /\ Building
    /\ last' = Call("fold", i, <<>>, functor, acc, Len(heap),
                    Ret(fold(heap, trees[i], acc, functor)))
    /\ UNCHANGED <<heap, trees, hist>>

\* trees[i].size()
Size(i) ==
    /\ Building
    /\ last' = Call("size", i, <<>>, "", 0, Len(heap), Ret(size(heap, trees[i])))
    /\ UNCHANGED <<heap, trees, hist>>

\* trees[i].value(), .word(), .left(), .center(), .right(), .empty()
Value(i) ==
    /\ Building
    /\ last' = Call("value", i, <<>>, "", 0, Len(heap), value(heap, trees[i]))
    /\ UNCHANGED <<heap, trees, hist>>

Word(i) ==
    /\ Building
    /\ last' = Call("word", i, <<>>, "", 0, Len(heap), word(heap, trees[i]))
    /\ UNCHANGED <<heap, trees, hist>>

Left(i) ==
    /\ Building
    /\ last' = Call("left", i, <<>>, "", 0, Len(heap), left(heap, trees[i]))
    /\ UNCHANGED <<heap, trees, hist>>

Center(i) ==
    /\ Building
    /\ last' = Call("center", i, <<>>, "", 0, Len(heap), center(heap, trees[i]))
    /\ UNCHANGED <<heap, trees, hist>>

Right(i) ==
    /\ Building
    /\ last' = Call("right", i, <<>>, "", 0, Len(heap), right(heap, trees[i]))
    /\ UNCHANGED <<heap, trees, hist>>

Empty(i) ==
    /\ Building
    /\ last' = Call("empty", i, <<>>, "", 0, Len(heap), Ret(empty(trees[i])))
    /\ UNCHANGED <<heap, trees, hist>>

\* The tree the client observes: the one it built last.
Latest == {Len(trees)}

Next ==
    \/ \E str \in Strs : Construct(str)
    \/ \E i \in 1..Len(trees), str \in Strs : Insert(i, str)
    \/ \E i \in Latest, str \in Strs : Exist(i, str)
    \/ \E i \in Latest, str \in Strs : Prefix(i, str)
    \/ \E i \in Latest, functor \in Functors :
          \E acc \in Accs(functor) : Fold(i, functor, acc)
    \/ \E i \in Latest : Size(i)
    \/ \E i \in Latest : Value(i)
    \/ \E i \in Latest : Word(i)
    \/ \E i \in Latest : Left(i)
    \/ \E i \in Latest : Center(i)
    \/ \E i \in Latest : Right(i)
    \/ \E i \in Latest : Empty(i)

Spec == Init /\ [][Next]_vars

\* The documented example: the client builds trees from the three words and
\* queries them.
NextWords ==
    \/ \E str \in Words : Construct(str)
    \/ \E i \in 1..Len(trees), str \in Words : Insert(i, str)
    \/ \E i \in Latest, str \in Queries : Exist(i, str)
    \/ \E i \in Latest, str \in Queries : Prefix(i, str)
    \/ \E i \in Latest : Size(i)

SpecWords == Init /\ [][NextWords]_vars

(***************************************************************************)
(* Vocabulary of the properties.                                           *)
(***************************************************************************)

\* The tree an observation is made on, and the result of a creation.
This == trees[last.this]
Result == trees[Len(trees)]

\* The non-empty strings tree i was built from.
Inserted(i) == {hist[i][k] : k \in 1..Len(hist[i])} \ {<<>>}

\* The non-empty prefixes of a set of strings.
PrefixesOf(S) == UNION {{SubSeq(s, 1, n) : n \in 1..Len(s)} : s \in S}

Min(a, b) == IF a < b THEN a ELSE b
Max(S) == CHOOSE x \in S : \A y \in S : y <= x

\* The number of leading symbols on which s and q agree.
Agree(s, q) == Max({n \in 0..Min(Len(s), Len(q)) : SubSeq(s, 1, n) = SubSeq(q, 1, n)})

\* The nodes reachable from a root.
RECURSIVE Closure(_, _, _)
Closure(h, frontier, seen) ==
    IF frontier \subseteq seen THEN seen
    ELSE Closure(h,
                 UNION {{h[n].left, h[n].center, h[n].right} : n \in frontier \ seen}
                     \ {nullptr},
                 seen \cup frontier)
Reach(h, t) == Closure(h, {t} \ {nullptr}, {})

\* The nodes of one level: those reachable from t by left/right links only.
RECURSIVE LevelClosure(_, _, _)
LevelClosure(h, frontier, seen) ==
    IF frontier \subseteq seen THEN seen
    ELSE LevelClosure(h,
                      UNION {{h[n].left, h[n].right} : n \in frontier \ seen} \ {nullptr},
                      seen \cup frontier)
Level(h, t) == LevelClosure(h, {t} \ {nullptr}, {})

\* C1: on a tree built by insertions from the empty tree, exist(Q) for a
\* non-empty Q returns true exactly when Q is one of the inserted strings.
C1_ExistIffInserted ==
    (last.op = "exist" /\ last.str # <<>>) =>
        /\ ~last.res.exc
        /\ last.res.ret = (last.str \in Inserted(last.this))

\* C1 witness: a string inserted first is found after a later insertion of
\* another string that extends it.
C1_Witness ==
    /\ last.op = "exist"
    /\ last.res = Ret(TRUE)
    /\ Len(hist[last.this]) >= 2
    /\ last.str = hist[last.this][1]
    /\ Len(hist[last.this][2]) > Len(last.str)
    /\ SubSeq(hist[last.this][2], 1, Len(last.str)) = last.str

\* C3: prefix(S) is the prefix of S whose length is the largest number of
\* leading symbols on which S agrees with some inserted string (0 if none).
C3_PrefixIsLongestCommon ==
    last.op = "prefix" =>
        /\ ~last.res.exc
        /\ last.res.ret =
             SubSeq(last.str, 1,
                    Max({0} \cup {Agree(s, last.str) : s \in Inserted(last.this)}))

\* C3 witness: a proper non-empty prefix is returned that is neither an
\* inserted string nor the whole query.
C3_Witness ==
    /\ last.op = "prefix"
    /\ ~last.res.exc
    /\ last.res.ret # <<>>
    /\ last.res.ret # last.str
    /\ last.res.ret \notin Inserted(last.this)

\* C10: size() is the number of distinct non-empty prefixes of the inserted
\* strings, and inserting a string that is already stored changes no
\* exist, prefix or size result.
C10_SizeIsPrefixCount ==
    /\ last.op = "size" =>
         last.res = Ret(Cardinality(PrefixesOf(Inserted(last.this))))
    /\ (last.op = "operator_plus" /\ ~last.res.exc /\ last.str \in Inserted(last.this)) =>
         /\ size(heap, Result) = size(heap, This)
         /\ \A q \in Strs :
              /\ exist(heap, Result, q) = exist(heap, This, q)
              /\ prefix(heap, Result, q) = prefix(heap, This, q)

\* C10 witness: size() of a tree built from two different strings that share
\* their first symbol.
C10_Witness ==
    /\ last.op = "size"
    /\ \E a, b \in Inserted(last.this) : a # b /\ a[1] = b[1]
    /\ Len(hist[last.this]) >= 3

\* C2: an insertion changes no node that existed before it and no tree the
\* client holds: every exist, prefix, size and fold result on them is the
\* same after the insertion as before it.
C2_InsertLeavesTreesUnchanged ==
    [][last'.op = "operator_plus" =>
          /\ Len(heap') >= Len(heap)
          /\ \A n \in 1..Len(heap) : heap'[n] = heap[n]
          /\ \A i \in 1..Len(trees) :
               /\ trees'[i] = trees[i]
               /\ size(heap', trees[i]) = size(heap, trees[i])
               /\ fold(heap', trees[i], <<>>, "trace") = fold(heap, trees[i], <<>>, "trace")
               /\ \A q \in Strs :
                    /\ exist(heap', trees[i], q) = exist(heap, trees[i], q)
                    /\ prefix(heap', trees[i], q) = prefix(heap, trees[i], q)]_vars

\* C2 witness: an insertion into a non-empty tree whose result marks as a
\* word a symbol that the original tree stores unmarked.
C2_Witness ==
    /\ last.op = "operator_plus"
    /\ ~last.res.exc
    /\ This # nullptr
    /\ Result # nullptr
    /\ heap[Result].value = heap[This].value
    /\ heap[Result].word
    /\ ~heap[This].word

Accessors == {"value", "word", "left", "center", "right"}

\* C4: value, word, left, center and right raise exactly on the empty tree
\* and return the root's field otherwise; no other operation raises.
C4_OnlyAccessorsRaise ==
    /\ last.op \in Accessors =>
         IF empty(This) THEN last.res.exc
         ELSE last.res = Ret(CASE last.op = "value" -> heap[This].value
                               [] last.op = "word" -> heap[This].word
                               [] last.op = "left" -> heap[This].left
                               [] last.op = "center" -> heap[This].center
                               [] last.op = "right" -> heap[This].right)
    /\ last.op \notin Accessors => ~last.res.exc

\* C4 witness: an accessor called on an empty tree raised.
C4_Witness == last.op \in Accessors /\ empty(This) /\ last.res.exc

\* C5 (as stated): after inserting "category", "functor", "theory" into the
\* empty tree, size() is 11.
C5_SizeIsEleven ==
    (last.op = "size" /\ hist[last.this] = <<str_category, str_functor, str_theory>>) =>
        last.res = Ret(11)

\* C5 (amended): after inserting "category", "functor", "theory" into the
\* empty tree, size() is 21, the sum of the three lengths.
C5_SizeIsTwentyOne ==
    (last.op = "size" /\ hist[last.this] = <<str_category, str_functor, str_theory>>) =>
        last.res = Ret(Len(str_category) + Len(str_functor) + Len(str_theory))
           /\ last.res.ret = 21

\* C5 witness: size() is called on the tree built from the three words.
C5_Witness ==
    last.op = "size" /\ hist[last.this] = <<str_category, str_functor, str_theory>>

\* The nodes of the result of the last insertion that are not nodes of the
\* tree inserted into.
NewNodes == Reach(heap, Result) \ Reach(heap, This)

\* The left/right links the descent for str follows from t.
RECURSIVE SideSteps(_, _, _)
SideSteps(h, t, str) ==
    IF t = nullptr \/ str = <<>> THEN 0
    ELSE IF Head(str) > h[t].value THEN 1 + SideSteps(h, h[t].right, str)
    ELSE IF Head(str) < h[t].value THEN 1 + SideSteps(h, h[t].left, str)
    ELSE SideSteps(h, h[t].center, Tail(str))

\* C6 (as stated): an insertion allocates at most as many nodes as the
\* inserted string has symbols.
C6_AtMostLength ==
    (last.op = "operator_plus" /\ ~last.res.exc) =>
        Cardinality(NewNodes) <= Len(last.str)

\* C6 (amended): an insertion allocates exactly one node per symbol of the
\* string plus one per left/right link its descent follows in the tree, and
\* the allocated nodes are the new nodes of the result.
C6_LengthPlusSideSteps ==
    (last.op = "operator_plus" /\ ~last.res.exc) =>
        /\ NewNodes = (last.base + 1)..Len(heap)
        /\ Cardinality(NewNodes) = Len(last.str) + SideSteps(heap, This, last.str)

\* C6 witness: an insertion whose descent followed a left/right link and
\* allocated more nodes than the string has symbols.
C6_Witness ==
    /\ last.op = "operator_plus"
    /\ ~last.res.exc
    /\ SideSteps(heap, This, last.str) > 0
    /\ Cardinality(NewNodes) > Len(last.str)

\* The nodes the descent for str visits from t.
RECURSIVE Path(_, _, _)
Path(h, t, str) ==
    IF t = nullptr \/ str = <<>> THEN {}
    ELSE {t} \cup (IF Head(str) > h[t].value THEN Path(h, h[t].right, str)
                   ELSE IF Head(str) < h[t].value THEN Path(h, h[t].left, str)
                   ELSE Path(h, h[t].center, Tail(str)))

\* n is the root of a fresh center-chain for str.
RECURSIVE FreshChain(_, _, _, _)
FreshChain(h, n, str, base) ==
    IF str = <<>> THEN n = nullptr
    ELSE /\ n > base
         /\ h[n].left = nullptr
         /\ h[n].right = nullptr
         /\ FreshChain(h, h[n].center, Tail(str), base)

\* n is o with str inserted: along the descent every node is new, and every
\* child reference the descent does not follow is the reference o holds.
RECURSIVE SharedPath(_, _, _, _, _)
SharedPath(h, o, n, str, base) ==
    IF str = <<>> THEN n = o
    ELSE IF o = nullptr THEN FreshChain(h, n, str, base)
    ELSE /\ n > base
         /\ IF Head(str) > h[o].value
            THEN /\ h[n].left = h[o].left
                 /\ h[n].center = h[o].center
                 /\ SharedPath(h, h[o].right, h[n].right, str, base)
            ELSE IF Head(str) < h[o].value
            THEN /\ h[n].right = h[o].right
                 /\ h[n].center = h[o].center
                 /\ SharedPath(h, h[o].left, h[n].left, str, base)
            ELSE /\ h[n].left = h[o].left
                 /\ h[n].right = h[o].right
                 /\ SharedPath(h, h[o].center, h[n].center, Tail(str), base)

\* C7: the new nodes of insert(T, S), S non-empty, are exactly the nodes on
\* the descent path for S, and every child reference off the path is the
\* reference held by the corresponding node of T.
C7_StructuralSharing ==
    (last.op = "operator_plus" /\ ~last.res.exc /\ last.str # <<>>) =>
        /\ NewNodes = Path(heap, Result, last.str)
        /\ SharedPath(heap, This, Result, last.str, last.base)

\* C7 witness: an insertion that passed a node of T by a left/right link
\* while that node has a center subtree, which the result shares.
C7_Witness ==
    /\ last.op = "operator_plus"
    /\ ~last.res.exc
    /\ This # nullptr
    /\ last.str # <<>>
    /\ Head(last.str) # heap[This].value
    /\ heap[This].center # nullptr
    /\ heap[Result].center = heap[This].center

\* The position of node x in a sequence of calls.
Pos(calls, x) == CHOOSE k \in 1..Len(calls) : calls[k] = x

\* Every node of A is called before every node of B.
Before(calls, A, B) == \A a \in A, b \in B : Pos(calls, a) < Pos(calls, b)

C9_TernaryOrdering ==
    \A n \in 1..Len(heap) :
        /\ \A m \in Level(heap, heap[n].left) : heap[m].value < heap[n].value
        /\ \A m \in Level(heap, heap[n].right) : heap[m].value > heap[n].value
        /\ \A a, b \in Level(heap, n) : a # b => heap[a].value # heap[b].value

\* C9 witness: a node whose left child has a right child.
C9_Witness ==
    \E n \in 1..Len(heap) :
        /\ heap[n].left # nullptr
        /\ heap[heap[n].left].right # nullptr

====
